---------------------------- MODULE Spec2Model ----------------------------
(***************************************************************************)
(* A model of sqlw: the MySQL driver capability (dbcontext/drvs/mysql),    *)
(* the statement directives (stmt, stmt/directive) and the statement part  *)
(* of Renderer.Run (render).                                               *)
(*                                                                         *)
(* Four specifications share one set of variables:                         *)
(*   SpecDriver    - the Extract* operations of mysqlDrv on one connection *)
(*   SpecDirective - one statement template: parse, Initialize, generate   *)
(*   SpecRun       - Renderer.Run over a directory of statement documents  *)
(*   SpecRegistry  - the directive registry and RegistDirective            *)
(* A specification leaves the variables of the others at their initial     *)
(* values.                                                                 *)
(***************************************************************************)
EXTENDS Integers, Sequences, FiniteSets, TLC

VARIABLES
    \* ---- mysqlDrv: one *sql.Conn and the operation running on it
    op,          \* the Extract* operation in progress, or "idle"
    pc,          \* position inside the operation
    openRows,    \* number of result sets (*sql.Rows) open on the connection
    input,       \* arguments of the call and the catalog contents it will read
    rs,          \* rows of the open result set, in delivery order
    idx,         \* rows (or column types) consumed so far
    cur,         \* loop locals of ExtractQueryResultColumns for this iteration
    columns,     \* the slice being accumulated (data types or column names)
    locals,      \* other locals: prevSeq, nonUnique, refTableName, refColumnNames
    result,      \* what the operation delivers to its caller
    \* ---- statement directives: one statement template
    tokens,      \* the statement element's child tokens, in document order
    chain,       \* the directive instances, in document order
    dpc,         \* position of the statement compiler
    dpos,        \* directives handled in the current pass
    initErr,     \* error returned by the failing Initialize, or ""
    probeText,   \* concatenation of GenerateQuery() outputs
    finalText,   \* concatenation of Generate() outputs
    \* ---- the directive registry of package stmt
    directiveFactories, \* map tag name -> factory
    regPrev,     \* the registry as it was before the latest RegistDirective call
    regCall,     \* the latest RegistDirective call: its factory and its tags
    regLatest,   \* per tag, the factory of the most recent call that named it
    regCalls,    \* number of RegistDirective calls made
    \* ---- Renderer.Run: the statement documents of stmtDir
    docs,        \* per document, per statement element: does NewStmtInfo succeed
    rpc,         \* position inside Run
    fileNo,      \* index of the document being processed
    elemNo,      \* index of the next statement element of that document
    stmtInfos,   \* statements compiled so far for the current document
    compiled,    \* every <<document, element>> NewStmtInfo has compiled
    attempted,   \* every <<document, element>> NewStmtInfo was called on
    rendered,    \* documents whose stmt_*.go file was rendered
    runResult    \* what Run returns

drvVars == <<op, pc, openRows, input, rs, idx, cur, columns, locals, result>>
regVars == <<directiveFactories, regPrev, regCall, regLatest, regCalls>>
dirVars == <<tokens, chain, dpc, dpos, initErr, probeText, finalText, regVars>>
runVars == <<docs, rpc, fileNo, elemNo, stmtInfos, compiled, attempted, rendered, runResult>>
vars == <<drvVars, dirVars, runVars>>

----------------------------------------------------------------------------
(* Bounds of the model *)

MaxCols == 2
MaxRows == 3
MaxSeq == 3

----------------------------------------------------------------------------
(* mysql.go: data types and scan types *)

DataTypes ==
    << "float32", "float64",
       "bool", "int8", "uint8", "int16", "uint16", "int32", "uint32", "int64", "uint64",
       "time",
       "bit", "json", "string" >>

scanTypeFloat32 == "float32"
scanTypeFloat64 == "float64"
scanTypeInt8 == "int8"
scanTypeInt16 == "int16"
scanTypeInt32 == "int32"
scanTypeInt64 == "int64"
scanTypeNullFloat == "sql.NullFloat64"
scanTypeNullInt == "sql.NullInt64"
scanTypeNullTime == "mysql.NullTime"
scanTypeUint8 == "uint8"
scanTypeUint16 == "uint16"
scanTypeUint32 == "uint32"
scanTypeUint64 == "uint64"
scanTypeRawBytes == "sql.RawBytes"
scanTypeUnknown == "*interface{}"

ScanTypes ==
    { scanTypeFloat32, scanTypeFloat64, scanTypeInt8, scanTypeInt16, scanTypeInt32,
      scanTypeInt64, scanTypeNullFloat, scanTypeNullInt, scanTypeNullTime,
      scanTypeUint8, scanTypeUint16, scanTypeUint32, scanTypeUint64,
      scanTypeRawBytes, scanTypeUnknown }

flagUnsigned == 32

\* What the server can report for a result column: the type name and the
\* private fields `length` and `flags` of mysql.mysqlField.
DatabaseTypeNames ==
    { "FLOAT", "DOUBLE", "TINYINT", "SMALLINT", "YEAR", "MEDIUMINT", "INT", "BIGINT",
      "BIT", "JSON", "DECIMAL" }
FieldLengths == { 1, 4 }
FieldFlags == { 0, 1, flagUnsigned, flagUnsigned + 1 }

ColumnTypeInfos ==
    [ scanType : ScanTypes, databaseTypeName : DatabaseTypeNames,
      length : FieldLengths, flags : FieldFlags ]

\* isUnsigned := (flags & flagUnsigned) != 0
IsUnsigned(flags) == (flags \div flagUnsigned) % 2 = 1

\* bad(): panic(fmt.Errorf("Unknown column type: ...")); dataType is still "".
Bad == [ panics |-> TRUE, dataType |-> "" ]
Typed(dataType) == [ panics |-> FALSE, dataType |-> dataType ]

\* case scanTypeNullFloat
NullFloatDataType(databaseTypeName) ==
    CASE databaseTypeName = "FLOAT" -> Typed("float32")
      [] databaseTypeName = "DOUBLE" -> Typed("float64")
      [] OTHER -> Bad

\* case scanTypeInt8
Int8DataType(length) ==
    IF length = 1 THEN Typed("bool") ELSE Typed("int8")

\* case scanTypeNullInt as it would be if the unsigned flag were ignored
NullIntDataTypeSignedOnly(databaseTypeName, isUnsigned, length) ==
    CASE databaseTypeName = "TINYINT" ->
            IF length = 1 THEN Typed("bool") ELSE Typed("int8")
      [] databaseTypeName \in { "SMALLINT", "YEAR" } -> Typed("int16")
      [] databaseTypeName \in { "MEDIUMINT", "INT" } -> Typed("int32")
      [] databaseTypeName = "BIGINT" -> Typed("int64")
      [] OTHER -> Bad

\* case scanTypeNullInt
NullIntDataType(databaseTypeName, isUnsigned, length) ==
    CASE databaseTypeName = "TINYINT" ->
            IF isUnsigned THEN Typed("uint8")
            ELSE IF length = 1 THEN Typed("bool") ELSE Typed("int8")
      [] databaseTypeName \in { "SMALLINT", "YEAR" } ->
            IF isUnsigned THEN Typed("uint16") ELSE Typed("int16")
      [] databaseTypeName \in { "MEDIUMINT", "INT" } ->
            IF isUnsigned THEN Typed("uint32") ELSE Typed("int32")
      [] databaseTypeName = "BIGINT" ->
            IF isUnsigned THEN Typed("uint64") ELSE Typed("int64")
      [] OTHER -> Bad

\* case scanTypeRawBytes as it would be if DECIMAL were given a type of its own
RawBytesDataTypeByName(databaseTypeName) ==
    CASE databaseTypeName = "BIT" -> Typed("bit")
      [] databaseTypeName = "JSON" -> Typed("json")
      [] databaseTypeName = "DECIMAL" -> Typed("decimal")
      [] OTHER -> Typed("string")

\* case scanTypeRawBytes
RawBytesDataType(databaseTypeName) ==
    CASE databaseTypeName = "BIT" -> Typed("bit")
      [] databaseTypeName = "JSON" -> Typed("json")
      [] OTHER -> Typed("string")

\* default: of the outer switch as it would be if it fell back to "string"
UnlistedScanTypeAsString == Typed("string")

\* default: of the outer switch
UnlistedScanType == Bad

\* switch scanType { ... } of ExtractQueryResultColumns
ClassifyColumn(scanType, databaseTypeName, isUnsigned, length) ==
    CASE scanType = scanTypeFloat32 -> Typed("float32")
      [] scanType = scanTypeFloat64 -> Typed("float64")
      [] scanType = scanTypeNullFloat -> NullFloatDataType(databaseTypeName)
      [] scanType = scanTypeInt8 -> Int8DataType(length)
      [] scanType = scanTypeInt16 -> Typed("int16")
      [] scanType = scanTypeInt32 -> Typed("int32")
      [] scanType = scanTypeInt64 -> Typed("int64")
      [] scanType = scanTypeUint8 -> Typed("uint8")
      [] scanType = scanTypeUint16 -> Typed("uint16")
      [] scanType = scanTypeUint32 -> Typed("uint32")
      [] scanType = scanTypeUint64 -> Typed("uint64")
      [] scanType = scanTypeNullInt -> NullIntDataType(databaseTypeName, isUnsigned, length)
      [] scanType = scanTypeNullTime -> Typed("time")
      [] scanType = scanTypeRawBytes -> RawBytesDataType(databaseTypeName)
      [] OTHER -> UnlistedScanType

----------------------------------------------------------------------------
(* mysql.go: the operations, as steps of the goroutine that calls them *)

QueryResultOps == { "ExtractQueryResultColumns" }
NameListOps == { "ExtractTableNames", "ExtractIndexNames", "ExtractFKNames" }

IndexNames == { "PRIMARY", "idx_abc" }
FKNames == { "fk_abc" }

\* Lists of SEQ_IN_INDEX / ORDINAL_POSITION values, one per catalog row, in the
\* catalog's physical order.
SeqLists == UNION { [ 1..n -> 1..MaxSeq ] : n \in 0..MaxRows }

NoInput == [ name |-> "", seqs |-> <<>>, nonUnique |-> FALSE, count |-> 0 ]
NoColumn == [ scanType |-> "", databaseTypeName |-> "", length |-> 0, flags |-> 0, dataType |-> "" ]
\* nonUnique := true; prevSeq := 0 (prevPos := 0); the named results start zero.
NoLocals == [ prevSeq |-> 0, nonUnique |-> TRUE, refTableName |-> "", refColumnNames |-> <<>> ]
\* The zero values an error return carries: nil, false, false, "", nil.
NoValue ==
    [ columns |-> <<>>, isPrimary |-> FALSE, isUnique |-> FALSE,
      refTableName |-> "", refColumnNames |-> <<>>, columnName |-> "" ]
NoResult == [ kind |-> "none", err |-> "", prev |-> 0, current |-> 0, value |-> NoValue ]

\* return ..., nil
Ok(value) == [ kind |-> "ok", err |-> "", prev |-> 0, current |-> 0, value |-> value ]
\* return nil, ..., err
Err(msg) == [ kind |-> "error", err |-> msg, prev |-> 0, current |-> 0, value |-> NoValue ]
\* panic(fmt.Errorf(...)): the call returns nothing, the goroutine unwinds
Panic(msg, prev, current) ==
    [ kind |-> "panic", err |-> msg, prev |-> prev, current |-> current, value |-> NoValue ]

ColumnNameOf(p) == "col" \o ToString(p)
RefColumnNameOf(p) == "ref" \o ToString(p)
NameOf(p) == "name" \o ToString(p)

\* The rows of INFORMATION_SCHEMA.STATISTICS / KEY_COLUMN_USAGE for the named
\* index or foreign key, in physical order.
CatalogRows(in) ==
    [ p \in 1..Len(in.seqs) |->
        [ seq |-> in.seqs[p], columnName |-> ColumnNameOf(p), nonUnique |-> in.nonUnique,
          refTableName |-> "reftable", refColumnName |-> RefColumnNameOf(p) ] ]

\* Insert row r into the seq-sorted sequence s, after the rows with the same seq.
RECURSIVE InsertBySeq(_, _)
InsertBySeq(r, s) ==
    IF s = <<>> THEN << r >>
    ELSE IF r.seq < Head(s).seq THEN << r >> \o s
    ELSE << Head(s) >> \o InsertBySeq(r, Tail(s))

\* The query without its ORDER BY clause: rows come in physical order.
Unordered(rows) == rows

\* ORDER BY SEQ_IN_INDEX / ORDER BY ORDINAL_POSITION
RECURSIVE OrderBySeq(_)
OrderBySeq(rows) ==
    IF rows = <<>> THEN <<>>
    ELSE InsertBySeq(rows[Len(rows)], OrderBySeq(SubSeq(rows, 1, Len(rows) - 1)))

\* What conn.QueryContext delivers for the operation's query.
ResultSet(o, in) ==
    CASE o \in { "ExtractIndex", "ExtractFK" } -> OrderBySeq(CatalogRows(in))
      [] o \in NameListOps \cup { "ExtractAutoIncColumn" } -> [ p \in 1..in.count |-> NameOf(p) ]
      [] OTHER -> <<>>

\* The caller invokes drv.ExtractQueryResultColumns(conn, query).
CallExtractQueryResultColumns ==
    /\ op = "idle"
    /\ \E n \in 0..MaxCols : input' = [ NoInput EXCEPT !.count = n ]
    /\ op' = "ExtractQueryResultColumns"
    /\ pc' = "query"
    /\ UNCHANGED <<openRows, rs, idx, cur, columns, locals, result, dirVars, runVars>>

\* ExtractColumns: return drv.ExtractQueryResultColumns(conn, "SELECT * FROM `t`")
CallExtractColumns ==
    /\ op = "idle"
    /\ \E n \in 0..MaxCols : input' = [ NoInput EXCEPT !.count = n ]
    /\ op' = "ExtractQueryResultColumns"
    /\ pc' = "query"
    /\ UNCHANGED <<openRows, rs, idx, cur, columns, locals, result, dirVars, runVars>>

\* The caller invokes ExtractTableNames, ExtractIndexNames or ExtractFKNames.
CallExtractNames ==
    /\ op = "idle"
    /\ \E o \in NameListOps, n \in 0..MaxRows :
          /\ op' = o
          /\ input' = [ NoInput EXCEPT !.count = n ]
    /\ pc' = "dbname"
    /\ UNCHANGED <<openRows, rs, idx, cur, columns, locals, result, dirVars, runVars>>

\* The caller invokes ExtractAutoIncColumn; count = auto-increment columns found.
CallExtractAutoIncColumn ==
    /\ op = "idle"
    /\ \E n \in 0..MaxRows : input' = [ NoInput EXCEPT !.count = n ]
    /\ op' = "ExtractAutoIncColumn"
    /\ pc' = "dbname"
    /\ UNCHANGED <<openRows, rs, idx, cur, columns, locals, result, dirVars, runVars>>

\* The caller invokes ExtractIndex(conn, tableName, indexName).
CallExtractIndex ==
    /\ op = "idle"
    /\ \E n \in IndexNames, s \in SeqLists, u \in BOOLEAN :
          input' = [ name |-> n, seqs |-> s, nonUnique |-> u, count |-> 0 ]
    /\ op' = "ExtractIndex"
    /\ pc' = "dbname"
    /\ UNCHANGED <<openRows, rs, idx, cur, columns, locals, result, dirVars, runVars>>

\* The caller invokes ExtractFK(conn, tableName, fkName).
CallExtractFK ==
    /\ op = "idle"
    /\ \E n \in FKNames, s \in SeqLists :
          input' = [ name |-> n, seqs |-> s, nonUnique |-> FALSE, count |-> 0 ]
    /\ op' = "ExtractFK"
    /\ pc' = "dbname"
    /\ UNCHANGED <<openRows, rs, idx, cur, columns, locals, result, dirVars, runVars>>

\* extractDBName: conn.QueryRowContext("SELECT DATABASE()").Scan(&dbName); Row.Scan
\* closes its result set before it returns, so openRows is as before.
ExtractDBName ==
    /\ pc = "dbname"
    /\ \/ /\ result' = Err("SELECT DATABASE() failed")
          /\ pc' = "returned"
       \/ /\ result' = Err("No db selected")
          /\ pc' = "returned"
       \/ /\ pc' = "query"
          /\ UNCHANGED result
    /\ UNCHANGED <<op, openRows, input, rs, idx, cur, columns, locals, dirVars, runVars>>

\* rows, err := conn.QueryContext(...); if err != nil { return ..., err }
\* defer rows.Close()
QueryContext ==
    /\ pc = "query"
    /\ \/ /\ result' = Err("query failed")
          /\ pc' = "returned"
          /\ UNCHANGED <<openRows, rs>>
       \/ /\ openRows' = openRows + 1
          /\ rs' = ResultSet(op, input)
          /\ pc' = IF op \in QueryResultOps THEN "columnTypes" ELSE "loop"
          /\ UNCHANGED result
    /\ UNCHANGED <<op, input, idx, cur, columns, locals, dirVars, runVars>>

\* columnTypes, err := rows.ColumnTypes(); if err != nil { return nil, err }
ColumnTypes ==
    /\ pc = "columnTypes"
    /\ \/ /\ result' = Err("ColumnTypes failed")
          /\ pc' = "defer"
       \/ /\ pc' = "loop"
          /\ UNCHANGED result
    /\ UNCHANGED <<op, openRows, input, rs, idx, cur, columns, locals, dirVars, runVars>>

\* for i, columnType := range columnTypes: read length, flags, databaseTypeName
\* and scanType of column i; after the last column, return.
RangeColumnTypes ==
    /\ op \in QueryResultOps
    /\ pc = "loop"
    /\ \/ /\ idx < input.count
          /\ \E ct \in ColumnTypeInfos :
                cur' = [ scanType |-> ct.scanType, databaseTypeName |-> ct.databaseTypeName,
                         length |-> ct.length, flags |-> ct.flags, dataType |-> "" ]
          /\ pc' = "classify"
          /\ UNCHANGED result
       \/ /\ idx = input.count
          /\ result' = Ok([ NoValue EXCEPT !.columns = columns ])
          /\ pc' = "defer"
          /\ UNCHANGED cur
    /\ UNCHANGED <<op, openRows, input, rs, idx, columns, locals, dirVars, runVars>>

\* switch scanType {...}; columns = append(columns, Col{columnType, dataType})
SwitchScanType ==
    /\ pc = "classify"
    /\ LET c == ClassifyColumn(cur.scanType, cur.databaseTypeName,
                               IsUnsigned(cur.flags), cur.length)
       IN  IF c.panics
           THEN /\ result' = Panic("Unknown column type", 0, 0)
                /\ pc' = "defer"
                /\ UNCHANGED <<cur, columns>>
           ELSE /\ cur' = [ cur EXCEPT !.dataType = c.dataType ]
                /\ columns' = Append(columns, c.dataType)
                /\ pc' = "appended"
                /\ UNCHANGED result
    /\ UNCHANGED <<op, openRows, input, rs, idx, locals, dirVars, runVars>>

\* End of one iteration of the range loop: its locals go out of scope.
NextColumn ==
    /\ pc = "appended"
    /\ idx' = idx + 1
    /\ cur' = NoColumn
    /\ pc' = "loop"
    /\ UNCHANGED <<op, openRows, input, rs, columns, locals, result, dirVars, runVars>>

\* ExtractTableNames, ExtractIndexNames, ExtractFKNames:
\* for rows.Next() { if err = rows.Scan(&name); err != nil { return nil, err }; append }
\* rows.Next() is taken to deliver every row of the result set.
NamesLoop ==
    /\ op \in NameListOps
    /\ pc = "loop"
    /\ \/ /\ idx < Len(rs)
          /\ result' = Err("Scan failed")
          /\ pc' = "defer"
          /\ UNCHANGED <<idx, columns>>
       \/ /\ idx < Len(rs)
          /\ columns' = Append(columns, rs[idx + 1])
          /\ idx' = idx + 1
          /\ UNCHANGED <<pc, result>>
       \/ /\ idx = Len(rs)
          /\ result' = Ok([ NoValue EXCEPT !.columns = columns ])
          /\ pc' = "defer"
          /\ UNCHANGED <<idx, columns>>
    /\ UNCHANGED <<op, openRows, input, rs, cur, locals, dirVars, runVars>>

\* ExtractAutoIncColumn: for rows.Next() { Scan(&columnName); break }; return columnName, nil
AutoIncLoop ==
    /\ op = "ExtractAutoIncColumn"
    /\ pc = "loop"
    /\ \/ /\ Len(rs) > 0
          /\ result' = Err("Scan failed")
       \/ /\ Len(rs) > 0
          /\ result' = Ok([ NoValue EXCEPT !.columnName = rs[1] ])
       \/ /\ Len(rs) = 0
          /\ result' = Ok([ NoValue EXCEPT !.columnName = "" ])
    /\ pc' = "defer"
    /\ UNCHANGED <<op, openRows, input, rs, idx, cur, columns, locals, dirVars, runVars>>

\* The sequence check as it would be if only a non-increasing number were rejected.
BadSeqNotIncreasing(seq, prevSeq) == seq <= prevSeq

\* if seq != prevSeq+1 (if pos != prevPos+1)
BadSeq(seq, prevSeq) == seq # prevSeq + 1

\* The sequence check's failure as it would be if the error were returned.
OnBadSeqReturnErr(msg, prev, current) == Err(msg)

\* panic(fmt.Errorf("Bad SEQ_IN_INDEX, prev is %d, current is %d", prevSeq, seq))
OnBadSeq(msg, prev, current) == Panic(msg, prev, current)

\* isUnique = !nonUnique
IsUnique(nonUnique) == ~nonUnique

\* isPrimary = indexName == "PRIMARY"
IsPrimary(indexName) == indexName = "PRIMARY"

\* ExtractIndex: the loop over the rows and the return after it.
\* rows.Next() is taken to deliver every row of the result set.
IndexLoop ==
    /\ op = "ExtractIndex"
    /\ pc = "loop"
    /\ \/ /\ idx < Len(rs)
          /\ result' = Err("Scan failed")
          /\ pc' = "defer"
          /\ UNCHANGED <<idx, columns, locals>>
       \/ /\ idx < Len(rs)
          /\ LET row == rs[idx + 1]
             IN  IF BadSeq(row.seq, locals.prevSeq)
                 THEN /\ result' = OnBadSeq("Bad SEQ_IN_INDEX", locals.prevSeq, row.seq)
                      /\ pc' = "defer"
                      /\ locals' = [ locals EXCEPT !.nonUnique = row.nonUnique ]
                      /\ UNCHANGED <<idx, columns>>
                 ELSE /\ locals' = [ locals EXCEPT !.nonUnique = row.nonUnique,
                                                   !.prevSeq = row.seq ]
                      /\ columns' = Append(columns, row.columnName)
                      /\ idx' = idx + 1
                      /\ UNCHANGED <<pc, result>>
       \/ /\ idx = Len(rs)
          /\ result' = IF Len(columns) = 0
                       THEN Err("Index not found")
                       ELSE Ok([ NoValue EXCEPT !.columns = columns,
                                                !.isPrimary = IsPrimary(input.name),
                                                !.isUnique = IsUnique(locals.nonUnique) ])
          /\ pc' = "defer"
          /\ UNCHANGED <<idx, columns, locals>>
    /\ UNCHANGED <<op, openRows, input, rs, cur, dirVars, runVars>>

\* ExtractFK: the loop over the rows and the return after it.
FKLoop ==
    /\ op = "ExtractFK"
    /\ pc = "loop"
    /\ \/ /\ idx < Len(rs)
          /\ result' = Err("Scan failed")
          /\ pc' = "defer"
          /\ UNCHANGED <<idx, columns, locals>>
       \/ /\ idx < Len(rs)
          /\ LET row == rs[idx + 1]
             IN  IF BadSeq(row.seq, locals.prevSeq)
                 THEN /\ result' = OnBadSeq("Bad ORDINAL_POSITION", locals.prevSeq, row.seq)
                      /\ pc' = "defer"
                      /\ locals' = [ locals EXCEPT !.refTableName = row.refTableName ]
                      /\ UNCHANGED <<idx, columns>>
                 ELSE /\ locals' = [ locals EXCEPT
                                       !.refTableName = row.refTableName,
                                       !.prevSeq = row.seq,
                                       !.refColumnNames = Append(@, row.refColumnName) ]
                      /\ columns' = Append(columns, row.columnName)
                      /\ idx' = idx + 1
                      /\ UNCHANGED <<pc, result>>
       \/ /\ idx = Len(rs)
          /\ result' = IF Len(columns) = 0
                       THEN Err("FK not found")
                       ELSE Ok([ NoValue EXCEPT !.columns = columns,
                                                !.refTableName = locals.refTableName,
                                                !.refColumnNames = locals.refColumnNames ])
          /\ pc' = "defer"
          /\ UNCHANGED <<idx, columns, locals>>
    /\ UNCHANGED <<op, openRows, input, rs, cur, dirVars, runVars>>

\* rows.Close() as it would be if called at the end of the function body instead
\* of deferred: a panic skips it.
CloseAtEndOfBody(kind, n) == IF kind = "panic" THEN n ELSE n - 1

\* defer rows.Close(): runs on return and while a panic unwinds.
CloseOnExit(kind, n) == n - 1

\* The deferred rows.Close() of the operation that is leaving.
DeferredClose ==
    /\ pc = "defer"
    /\ openRows' = CloseOnExit(result.kind, openRows)
    /\ pc' = "returned"
    /\ UNCHANGED <<op, input, rs, idx, cur, columns, locals, result, dirVars, runVars>>

\* The caller has the outcome (a panic: it recovered) and the frame is gone; the
\* connection stays as the operation left it.
Return ==
    /\ pc = "returned"
    /\ op' = "idle"
    /\ pc' = "idle"
    /\ input' = NoInput
    /\ rs' = <<>>
    /\ idx' = 0
    /\ cur' = NoColumn
    /\ columns' = <<>>
    /\ locals' = NoLocals
    /\ result' = NoResult
    /\ UNCHANGED <<openRows, dirVars, runVars>>

DriverNext ==
    \/ CallExtractQueryResultColumns
    \/ CallExtractColumns
    \/ CallExtractNames
    \/ CallExtractAutoIncColumn
    \/ CallExtractIndex
    \/ CallExtractFK
    \/ ExtractDBName
    \/ QueryContext
    \/ ColumnTypes
    \/ RangeColumnTypes
    \/ SwitchScanType
    \/ NextColumn
    \/ NamesLoop
    \/ AutoIncLoop
    \/ IndexLoop
    \/ FKLoop
    \/ DeferredClose
    \/ Return

----------------------------------------------------------------------------
(* stmt/directive.go, stmt/directive/replace.go: the directives *)

MaxTokens == 3

\* The child tokens a statement element can have: character data, and <replace>
\* elements with their text and attributes.
CharDataTexts == { "SELECT ", " AS x" }
ElementTexts == { "1+1", "" }
AttrLists ==
    { <<>>,
      << [ key |-> "with", value |-> "" ] >>,
      << [ key |-> "with", value |-> "?" ] >>,
      << [ key |-> "as", value |-> "y" ], [ key |-> "with", value |-> "NULL" ] >> }

CharData(data) == [ kind |-> "CharData", tag |-> "", data |-> data, attrs |-> <<>> ]
Element(tag, text, attrs) == [ kind |-> "Element", tag |-> tag, data |-> text, attrs |-> attrs ]

Tokens ==
    { CharData(t) : t \in CharDataTexts }
        \cup { Element("replace", t, a) : t \in ElementTexts, a \in AttrLists }

Templates == UNION { [ 1..n -> Tokens ] : n \in 0..MaxTokens }

\* etree: elem.SelectAttrValue(key, dflt) is the value of the first attribute
\* with that key, or dflt when there is none.
RECURSIVE SelectAttrValue(_, _, _)
SelectAttrValue(attrs, key, dflt) ==
    IF attrs = <<>> THEN dflt
    ELSE IF Head(attrs).key = key THEN Head(attrs).value
    ELSE SelectAttrValue(Tail(attrs), key, dflt)

\* &textDirective{}
NewTextDirective == [ type |-> "textDirective", data |-> "", origin |-> "", with |-> "" ]
\* The factory registered for "replace": &replaceDirective{}
NewReplaceDirective == [ type |-> "replaceDirective", data |-> "", origin |-> "", with |-> "" ]

InitOk(d) == [ err |-> "", d |-> d ]
InitErr(msg, d) == [ err |-> msg, d |-> d ]

\* textDirective.Initialize
TextInitialize(d, tok) == InitOk([ d EXCEPT !.data = tok.data ])

\* replaceDirective.Initialize as it would be if origin were stored before 'with'
\* is checked.
ReplaceInitializeOriginFirst(d, tok) ==
    LET with == SelectAttrValue(tok.attrs, "with", "")
        d1 == [ d EXCEPT !.origin = tok.data ]
    IN  IF with = ""
        THEN InitErr("Missing 'with' attribute in <replace> directive", d1)
        ELSE InitOk([ d1 EXCEPT !.with = with ])

\* replaceDirective.Initialize
ReplaceInitialize(d, tok) ==
    LET with == SelectAttrValue(tok.attrs, "with", "")
    IN  IF with = ""
        THEN InitErr("Missing 'with' attribute in <replace> directive", d)
        ELSE InitOk([ d EXCEPT !.origin = tok.data, !.with = with ])

\* textDirective.Generate
TextGenerate(d) == d.data
\* textDirective.GenerateQuery
TextGenerateQuery(d) == d.data

\* replaceDirective.Generate as it would be if it emitted the original text.
ReplaceGenerateOrigin(d) == d.origin

\* replaceDirective.Generate
ReplaceGenerate(d) == d.with
\* replaceDirective.GenerateQuery
ReplaceGenerateQuery(d) == d.origin

\* StmtDirective: dispatch on the directive's dynamic type.
Initialize(d, tok) ==
    IF d.type = "textDirective" THEN TextInitialize(d, tok) ELSE ReplaceInitialize(d, tok)
Generate(d) ==
    IF d.type = "textDirective" THEN TextGenerate(d) ELSE ReplaceGenerate(d)
GenerateQuery(d) ==
    IF d.type = "textDirective" THEN TextGenerateQuery(d) ELSE ReplaceGenerateQuery(d)

\* Parse: a literal-text node gets the built-in text directive, an element the
\* instance its tag's factory makes.
NewDirective(tok) ==
    IF tok.kind = "CharData" THEN NewTextDirective ELSE NewReplaceDirective

\* Parse of one statement template: one fresh directive per child token.
ParseTemplate ==
    /\ dpc = "idle"
    /\ \E t \in Templates :
          /\ tokens' = t
          /\ chain' = [ k \in 1..Len(t) |-> NewDirective(t[k]) ]
    /\ dpc' = "initialize"
    /\ UNCHANGED <<dpos, initErr, probeText, finalText, regVars, drvVars, runVars>>

\* Initialize of the next directive, in document order; an error aborts the
\* statement.
InitializeNext ==
    /\ dpc = "initialize"
    /\ \/ /\ dpos < Len(chain)
          /\ LET r == Initialize(chain[dpos + 1], tokens[dpos + 1])
             IN  /\ chain' = [ chain EXCEPT ![dpos + 1] = r.d ]
                 /\ IF r.err # ""
                    THEN /\ initErr' = r.err
                         /\ dpc' = "failed"
                         /\ UNCHANGED dpos
                    ELSE /\ dpos' = dpos + 1
                         /\ UNCHANGED <<initErr, dpc>>
       \/ /\ dpos = Len(chain)
          /\ dpc' = "probe"
          /\ dpos' = 0
          /\ UNCHANGED <<chain, initErr>>
    /\ UNCHANGED <<tokens, probeText, finalText, regVars, drvVars, runVars>>

\* Probe query text: GenerateQuery() of every directive, in document order.
GenerateQueryNext ==
    /\ dpc = "probe"
    /\ \/ /\ dpos < Len(chain)
          /\ probeText' = probeText \o GenerateQuery(chain[dpos + 1])
          /\ dpos' = dpos + 1
          /\ UNCHANGED dpc
       \/ /\ dpos = Len(chain)
          /\ dpc' = "final"
          /\ dpos' = 0
          /\ UNCHANGED probeText
    /\ UNCHANGED <<tokens, chain, initErr, finalText, regVars, drvVars, runVars>>

\* Final query text: Generate() of every directive, in document order.
\* (ProcessQueryResult of both directives returns nil and changes nothing.)
GenerateNext ==
    /\ dpc = "final"
    /\ \/ /\ dpos < Len(chain)
          /\ finalText' = finalText \o Generate(chain[dpos + 1])
          /\ dpos' = dpos + 1
          /\ UNCHANGED dpc
       \/ /\ dpos = Len(chain)
          /\ dpc' = "done"
          /\ UNCHANGED <<dpos, finalText>>
    /\ UNCHANGED <<tokens, chain, initErr, probeText, regVars, drvVars, runVars>>

DirectiveNext ==
    \/ ParseTemplate
    \/ InitializeNext
    \/ GenerateQueryNext
    \/ GenerateNext

----------------------------------------------------------------------------
(* render: Renderer.Run *)

MaxDocs == 2
MaxStmts == 2

\* An entry of stmtDir: a directory, a file without the .xml suffix, or a
\* statement document; stmts[e] tells whether infos.NewStmtInfo succeeds on the
\* document's e-th child element.
StmtLists == UNION { [ 1..n -> BOOLEAN ] : n \in 0..MaxStmts }
DirEntries ==
    { [ kind |-> "dir", stmts |-> <<>> ], [ kind |-> "other", stmts |-> <<>> ] }
        \cup { [ kind |-> "xml", stmts |-> l ] : l \in StmtLists }
Directories == UNION { [ 1..n -> DirEntries ] : n \in 0..MaxDocs }

\* Run is called: the runtime variables are reset.
RunBegin ==
    /\ rpc = "idle"
    /\ \E d \in Directories : docs' = d
    /\ rpc' = "setup"
    /\ UNCHANGED <<fileNo, elemNo, stmtInfos, compiled, attempted, rendered, runResult,
                   drvVars, dirVars>>

\* Load db, parse the manifest, load the scan type map: the first failure is
\* returned.
RunSetup ==
    /\ rpc = "setup"
    /\ \/ /\ runResult' = "NewDBInfo failed"
          /\ rpc' = "returned"
       \/ /\ runResult' = "manifest failed"
          /\ rpc' = "returned"
       \/ /\ runResult' = "scan type map failed"
          /\ rpc' = "returned"
       \/ /\ rpc' = "tables"
          /\ UNCHANGED runResult
    /\ UNCHANGED <<docs, fileNo, elemNo, stmtInfos, compiled, attempted, rendered,
                   drvVars, dirVars>>

\* Render tables: a failing render is returned.
RunRenderTables ==
    /\ rpc = "tables"
    /\ \/ /\ runResult' = "render table failed"
          /\ rpc' = "returned"
       \/ /\ rpc' = "stmtDir"
          /\ UNCHANGED runResult
    /\ UNCHANGED <<docs, fileNo, elemNo, stmtInfos, compiled, attempted, rendered,
                   drvVars, dirVars>>

\* if r.stmtDir != "" { stmtFileInfos, err := ioutil.ReadDir(r.stmtDir) ... }
RunReadDir ==
    /\ rpc = "stmtDir"
    /\ \/ /\ docs = <<>>
          /\ rpc' = "extra"
          /\ UNCHANGED <<fileNo, runResult>>
       \/ /\ runResult' = "ReadDir failed"
          /\ rpc' = "returned"
          /\ UNCHANGED fileNo
       \/ /\ fileNo' = 1
          /\ rpc' = "file"
          /\ UNCHANGED runResult
    /\ UNCHANGED <<docs, elemNo, stmtInfos, compiled, attempted, rendered, drvVars, dirVars>>

\* for _, stmtFileInfo := range stmtFileInfos: skip directories and files that
\* are not .xml, read the document.
RunNextFile ==
    /\ rpc = "file"
    /\ \/ /\ fileNo > Len(docs)
          /\ rpc' = "extra"
          /\ UNCHANGED <<fileNo, elemNo, stmtInfos, runResult>>
       \/ /\ fileNo <= Len(docs)
          /\ docs[fileNo].kind \in { "dir", "other" }
          /\ fileNo' = fileNo + 1
          /\ UNCHANGED <<rpc, elemNo, stmtInfos, runResult>>
       \/ /\ fileNo <= Len(docs)
          /\ docs[fileNo].kind = "xml"
          /\ runResult' = "ReadFromFile failed"
          /\ rpc' = "returned"
          /\ UNCHANGED <<fileNo, elemNo, stmtInfos>>
       \/ /\ fileNo <= Len(docs)
          /\ docs[fileNo].kind = "xml"
          /\ stmtInfos' = <<>>
          /\ elemNo' = 1
          /\ rpc' = "elems"
          /\ UNCHANGED <<fileNo, runResult>>
    /\ UNCHANGED <<docs, compiled, attempted, rendered, drvVars, dirVars>>

\* The loop over doc.ChildElements() as it would be if a statement that fails to
\* compile were skipped and the loop went on.
RunNextElemSkipFailed ==
    /\ rpc = "elems"
    /\ \/ /\ elemNo <= Len(docs[fileNo].stmts)
          /\ attempted' = attempted \cup { <<fileNo, elemNo>> }
          /\ IF docs[fileNo].stmts[elemNo]
             THEN /\ stmtInfos' = Append(stmtInfos, elemNo)
                  /\ compiled' = compiled \cup { <<fileNo, elemNo>> }
             ELSE UNCHANGED <<stmtInfos, compiled>>
          /\ elemNo' = elemNo + 1
          /\ UNCHANGED <<rpc, runResult>>
       \/ /\ elemNo > Len(docs[fileNo].stmts)
          /\ rpc' = "render"
          /\ UNCHANGED <<elemNo, stmtInfos, compiled, attempted, runResult>>
    /\ UNCHANGED <<docs, fileNo, rendered, drvVars, dirVars>>

\* for _, elem := range doc.ChildElements() {
\*     stmtInfo, err := infos.NewStmtInfo(r.loader, r.db, elem)
\*     if err != nil { return err }
\*     stmtInfos = append(stmtInfos, stmtInfo) }
RunNextElem ==
    /\ rpc = "elems"
    /\ \/ /\ elemNo <= Len(docs[fileNo].stmts)
          /\ attempted' = attempted \cup { <<fileNo, elemNo>> }
          /\ IF docs[fileNo].stmts[elemNo]
             THEN /\ stmtInfos' = Append(stmtInfos, elemNo)
                  /\ compiled' = compiled \cup { <<fileNo, elemNo>> }
                  /\ elemNo' = elemNo + 1
                  /\ UNCHANGED <<rpc, runResult>>
             ELSE /\ runResult' = "NewStmtInfo failed"
                  /\ rpc' = "returned"
                  /\ UNCHANGED <<elemNo, stmtInfos, compiled>>
       \/ /\ elemNo > Len(docs[fileNo].stmts)
          /\ rpc' = "render"
          /\ UNCHANGED <<elemNo, stmtInfos, compiled, attempted, runResult>>
    /\ UNCHANGED <<docs, fileNo, rendered, drvVars, dirVars>>

\* r.render(manifest.Templates.Stmt, "stmt_<name>.go", stmtInfos), then the
\* optional StmtTest template; a failing render is returned.
RunRenderStmts ==
    /\ rpc = "render"
    /\ \/ /\ runResult' = "render stmt failed"
          /\ rpc' = "returned"
          /\ UNCHANGED <<fileNo, rendered>>
       \/ /\ rendered' = rendered \cup { fileNo }
          /\ runResult' = "render stmt test failed"
          /\ rpc' = "returned"
          /\ UNCHANGED fileNo
       \/ /\ rendered' = rendered \cup { fileNo }
          /\ fileNo' = fileNo + 1
          /\ rpc' = "file"
          /\ UNCHANGED runResult
    /\ UNCHANGED <<docs, elemNo, stmtInfos, compiled, attempted, drvVars, dirVars>>

\* Render extra files, then return nil.
RunRenderExtra ==
    /\ rpc = "extra"
    /\ \/ runResult' = "render extra failed"
       \/ runResult' = "nil"
    /\ rpc' = "returned"
    /\ UNCHANGED <<docs, fileNo, elemNo, stmtInfos, compiled, attempted, rendered,
                   drvVars, dirVars>>

RunNext ==
    \/ RunBegin
    \/ RunSetup
    \/ RunRenderTables
    \/ RunReadDir
    \/ RunNextFile
    \/ RunNextElem
    \/ RunRenderStmts
    \/ RunRenderExtra

----------------------------------------------------------------------------
(* stmt/directive.go: the directive registry *)

MaxTags == 2
MaxCalls == 2

\* Tag names and factories a caller can pass to RegistDirective.
TagNames == { "replace", "bind", "wildcard" }
Factories == { "replaceDirective", "bindDirective" }
\* What directiveFactories[tag] yields for a tag that is not in the map.
NoFactory == "nil"
\* The variadic tags argument: any list of tag names, repetitions included.
TagLists == UNION { [ 1..n -> TagNames ] : n \in 0..MaxTags }

\* directiveFactories = map[string]func() StmtDirective{}
EmptyRegistry == [ t \in TagNames |-> NoFactory ]
NoCall == [ factory |-> NoFactory, tags |-> <<>> ]

\* The loop of RegistDirective as it would be if a tag that is already bound
\* were left alone.
RECURSIVE RegistUnlessBound(_, _, _)
RegistUnlessBound(reg, factory, tags) ==
    IF tags = <<>> THEN reg
    ELSE RegistUnlessBound(
             IF reg[Head(tags)] = NoFactory
             THEN [ reg EXCEPT ![Head(tags)] = factory ] ELSE reg,
             factory, Tail(tags))

\* for _, tag := range tags { directiveFactories[tag] = factory }
RECURSIVE RegistAll(_, _, _)
RegistAll(reg, factory, tags) ==
    IF tags = <<>> THEN reg
    ELSE RegistAll([ reg EXCEPT ![Head(tags)] = factory ], factory, Tail(tags))

\* RegistDirective(factory, tags...)
RegistDirective ==
    /\ regCalls < MaxCalls
    /\ \E f \in Factories, ts \in TagLists :
          /\ directiveFactories' = RegistAll(directiveFactories, f, ts)
          /\ regCall' = [ factory |-> f, tags |-> ts ]
          /\ regLatest' = [ t \in TagNames |->
                              IF \E k \in 1..Len(ts) : ts[k] = t THEN f ELSE regLatest[t] ]
    /\ regPrev' = directiveFactories
    /\ regCalls' = regCalls + 1
    /\ UNCHANGED <<tokens, chain, dpc, dpos, initErr, probeText, finalText, drvVars, runVars>>

RegistryNext ==
    \/ RegistDirective

----------------------------------------------------------------------------
(* Initial state: nothing has been called yet *)

Init ==
    /\ op = "idle"
    /\ pc = "idle"
    /\ openRows = 0
    /\ input = NoInput
    /\ rs = <<>>
    /\ idx = 0
    /\ cur = NoColumn
    /\ columns = <<>>
    /\ locals = NoLocals
    /\ result = NoResult
    /\ tokens = <<>>
    /\ chain = <<>>
    /\ dpc = "idle"
    /\ dpos = 0
    /\ initErr = ""
    /\ probeText = ""
    /\ finalText = ""
    /\ directiveFactories = EmptyRegistry
    /\ regPrev = EmptyRegistry
    /\ regCall = NoCall
    /\ regLatest = EmptyRegistry
    /\ regCalls = 0
    /\ docs = <<>>
    /\ rpc = "idle"
    /\ fileNo = 0
    /\ elemNo = 0
    /\ stmtInfos = <<>>
    /\ compiled = {}
    /\ attempted = {}
    /\ rendered = {}
    /\ runResult = "none"

SpecDriver == Init /\ [][DriverNext]_vars

----------------------------------------------------------------------------
(* Claims about the MySQL driver, checked under SpecDriver *)

InDataTypes(t) == \E k \in 1..Len(DataTypes) : DataTypes[k] = t

\* C2: every column ExtractQueryResultColumns classifies without aborting gets a
\* data type that is a member of DataTypes, whatever the scan type, type name,
\* unsigned flag and length: no column the operation accumulates or returns has
\* an empty type or a type outside that list.
C2_DataTypesCoverEveryColumn ==
    op \in QueryResultOps =>
        /\ \A k \in 1..Len(columns) : InDataTypes(columns[k])
        /\ \A k \in 1..Len(result.value.columns) : InDataTypes(result.value.columns[k])
        /\ pc = "appended" =>
              /\ InDataTypes(cur.dataType)
              /\ columns[Len(columns)] = cur.dataType
        /\ (pc \in { "defer", "returned" } /\ cur # NoColumn) => result.kind = "panic"

C2_Witness ==
    /\ op \in QueryResultOps
    /\ pc = "returned"
    /\ result.kind = "ok"
    /\ result.value.columns = << "json", "uint16" >>

\* C3: a signed TINYINT of length 1 is classified bool on the direct path (scan
\* type int8) and on the nullable path (scan type NullInt64), and an unsigned INT
\* is classified uint32 on the direct path (scan type uint32) and on the nullable
\* path; on neither path does the classification abort.
C3_IntegerClassIgnoresNullability ==
    (op \in QueryResultOps /\ pc \in { "appended", "defer", "returned" } /\ cur # NoColumn) =>
        LET signed == cur.flags \in { 0, 1 }
            tiny1 == cur.databaseTypeName = "TINYINT" /\ signed /\ cur.length = 1
            uint == cur.databaseTypeName = "INT" /\ ~signed
        IN  /\ (tiny1 /\ cur.scanType \in { scanTypeInt8, scanTypeNullInt }) =>
                  (pc = "appended" /\ cur.dataType = "bool")
            /\ (uint /\ cur.scanType \in { scanTypeUint32, scanTypeNullInt }) =>
                  (pc = "appended" /\ cur.dataType = "uint32")

C3_Witness ==
    /\ op \in QueryResultOps
    /\ pc = "appended"
    /\ cur.scanType = scanTypeNullInt
    /\ cur.databaseTypeName = "TINYINT"
    /\ cur.flags = 0
    /\ cur.length = 1
    /\ columns = << "uint32", "bool" >>

\* The (scan type, type name) pairs the decision table does not cover.
Uncovered(c) ==
    \/ c.scanType = scanTypeNullFloat /\ c.databaseTypeName \notin { "FLOAT", "DOUBLE" }
    \/ /\ c.scanType = scanTypeNullInt
       /\ c.databaseTypeName \notin { "TINYINT", "SMALLINT", "YEAR", "MEDIUMINT", "INT", "BIGINT" }
    \/ c.scanType \notin
          { scanTypeFloat32, scanTypeFloat64, scanTypeNullFloat, scanTypeInt8, scanTypeInt16,
            scanTypeInt32, scanTypeInt64, scanTypeUint8, scanTypeUint16, scanTypeUint32,
            scanTypeUint64, scanTypeNullInt, scanTypeNullTime, scanTypeRawBytes }

\* C4: a column whose (scan type, type name) pair is not covered aborts the whole
\* ExtractQueryResultColumns call with a panic: no type is substituted for it,
\* nothing is appended, and no column list is returned, the columns classified
\* before it included; a list that is returned holds every column of the result.
C4_UncoveredPairAborts ==
    op \in QueryResultOps =>
        /\ (cur # NoColumn /\ Uncovered(cur) /\ pc # "classify") =>
              /\ pc \in { "defer", "returned" }
              /\ result.kind = "panic"
              /\ result.value = NoValue
              /\ cur.dataType = ""
              /\ Len(columns) = idx
        /\ result.kind = "ok" =>
              /\ Len(result.value.columns) = input.count
              /\ cur = NoColumn

C4_Witness ==
    /\ op \in QueryResultOps
    /\ pc = "returned"
    /\ cur.scanType = scanTypeNullFloat
    /\ cur.databaseTypeName = "DECIMAL"
    /\ columns = << "string" >>
    /\ result.kind = "panic"
    /\ result.value.columns = <<>>

\* Errors of the connection, as opposed to findings about the catalog.
IOErrors == { "SELECT DATABASE() failed", "No db selected", "query failed", "Scan failed" }

\* The catalog rows carry each of 1..n exactly once, n >= 1.
CarriesOneToN(seqs) ==
    /\ Len(seqs) >= 1
    /\ \A k \in 1..Len(seqs) : \E p \in 1..Len(seqs) : seqs[p] = k

\* C5: when the catalog rows of the index carry the sequence numbers 1..n and the
\* connection does not fail, ExtractIndex returns the n column names in ascending
\* sequence order, isPrimary true exactly for the name "PRIMARY", and isUnique
\* the negation of the catalog's NON_UNIQUE flag.
C5_IndexColumnsInDeclaredOrder ==
    (/\ op = "ExtractIndex"
     /\ pc \in { "defer", "returned" }
     /\ CarriesOneToN(input.seqs)
     /\ result.err \notin IOErrors) =>
        /\ result.kind = "ok"
        /\ Len(result.value.columns) = Len(input.seqs)
        /\ \A p \in 1..Len(input.seqs) :
              result.value.columns[input.seqs[p]] = ColumnNameOf(p)
        /\ result.value.isPrimary = (input.name = "PRIMARY")
        /\ result.value.isUnique = ~input.nonUnique

C5_Witness ==
    /\ op = "ExtractIndex"
    /\ pc = "returned"
    /\ input.seqs = << 2, 3, 1 >>
    /\ input.name = "idx_abc"
    /\ ~input.nonUnique
    /\ result.kind = "ok"
    /\ result.value.columns = << "col3", "col1", "col2" >>
    /\ result.value.isUnique
    /\ ~result.value.isPrimary

\* C6: ExtractIndex and ExtractFK accept a row only when its sequence number is
\* one more than the number of rows accepted before it, so the rows read on a
\* successful return carry exactly 1, 2, ..., n, n >= 1; a first row that is not
\* 1, a gap or a repeated number ends the operation at that row with a failure,
\* and so do zero rows.
C6_SuccessOnlyOnContiguousSeq ==
    op \in { "ExtractIndex", "ExtractFK" } =>
        /\ idx <= Len(rs)
        /\ Len(columns) = idx
        /\ \A k \in 1..idx : rs[k].seq = k
        /\ result.kind = "ok" =>
              /\ idx = Len(rs)
              /\ Len(rs) >= 1
              /\ Len(result.value.columns) = Len(rs)
        /\ (pc \in { "defer", "returned" } /\ idx < Len(rs)) =>
              /\ result.kind \in { "panic", "error" }
              /\ result.value = NoValue
        /\ (pc \in { "defer", "returned" } /\ Len(rs) = 0) => result.kind = "error"

C6_Witness ==
    /\ op = "ExtractFK"
    /\ pc = "returned"
    /\ input.seqs = << 1, 1, 2 >>
    /\ idx = 1
    /\ result.kind = "panic"

\* The sequence check of ExtractIndex / ExtractFK was reached with a number that
\* does not follow the previous one.
NonContiguousMet ==
    /\ op \in { "ExtractIndex", "ExtractFK" }
    /\ pc \in { "defer", "returned" }
    /\ idx < Len(rs)
    /\ rs[idx + 1].seq # idx + 1
    /\ result.err # "Scan failed"

\* C7 as stated: a non-contiguous sequence number met by ExtractIndex or ExtractFK
\* reaches the caller through the returned error, like a query failure or a
\* not-found index, and not as a panic.
C7_NonContiguousIsReturnedError ==
    NonContiguousMet => result.kind = "error"

\* C7 as amended: a non-contiguous sequence number met by ExtractIndex or
\* ExtractFK is raised as a panic whose value is an error naming the previous
\* and the current number; the operation returns nothing, the returned-error
\* channel is not used.
C7_NonContiguousPanics ==
    NonContiguousMet =>
        /\ result.kind = "panic"
        /\ result.err = (IF op = "ExtractIndex" THEN "Bad SEQ_IN_INDEX" ELSE "Bad ORDINAL_POSITION")
        /\ result.prev = idx
        /\ result.current = rs[idx + 1].seq
        /\ result.value = NoValue

C7_Witness ==
    /\ op = "ExtractIndex"
    /\ pc = "returned"
    /\ input.seqs = << 3, 1 >>
    /\ result.kind = "panic"
    /\ result.prev = 1
    /\ result.current = 3

\* C8: the connection never has more than one result set open; none is open when
\* an operation issues a query, and none is left open when an operation has
\* left, whether by a normal return, an error return or a panic.
C8_ResultSetReleasedOnEveryExit ==
    /\ openRows \in { 0, 1 }
    /\ pc \in { "idle", "dbname", "query", "returned" } => openRows = 0
    /\ pc \in { "columnTypes", "loop", "classify", "appended", "defer" } => openRows = 1

C8_Witness ==
    /\ op = "ExtractIndex"
    /\ pc = "returned"
    /\ result.kind = "panic"
    /\ openRows = 0


SpecDirective == Init /\ [][DirectiveNext]_vars

----------------------------------------------------------------------------
(* Claims about the directives, checked under SpecDirective *)

\* The template with every element replaced by its own text (original = TRUE)
\* or by the value of its 'with' attribute (original = FALSE).
RECURSIVE Substituted(_, _)
Substituted(toks, original) ==
    IF toks = <<>> THEN ""
    ELSE LET t == Head(toks)
             with == IF \E k \in 1..Len(t.attrs) : t.attrs[k].key = "with"
                     THEN (CHOOSE a \in { t.attrs[k] : k \in 1..Len(t.attrs) } : a.key = "with").value
                     ELSE ""
         IN  (IF t.kind = "CharData" \/ original THEN t.data ELSE with)
                 \o Substituted(Tail(toks), original)

SelectSelectOneAsX ==
    << CharData("SELECT "),
       Element("replace", "1+1", << [ key |-> "with", value |-> "?" ] >>),
       CharData(" AS x") >>

\* C1: for a chain whose directives were all initialized, the probe text is the
\* template with each replace element substituted by its element text, and the
\* final text is the template with each replace element substituted by its
\* 'with' attribute, literal text being the same in both; the chain
\* "SELECT " + replace(1+1 -> ?) + " AS x" gives "SELECT 1+1 AS x" and
\* "SELECT ? AS x".
C1_ProbeAndFinalText ==
    /\ dpc = "probe" => probeText = Substituted(SubSeq(tokens, 1, dpos), TRUE)
    /\ dpc \in { "final", "done" } => probeText = Substituted(tokens, TRUE)
    /\ dpc = "final" => finalText = Substituted(SubSeq(tokens, 1, dpos), FALSE)
    /\ dpc = "done" => finalText = Substituted(tokens, FALSE)
    /\ (dpc = "done" /\ tokens = SelectSelectOneAsX) =>
          /\ probeText = "SELECT 1+1 AS x"
          /\ finalText = "SELECT ? AS x"

C1_Witness ==
    /\ dpc = "done"
    /\ tokens = SelectSelectOneAsX
    /\ probeText = "SELECT 1+1 AS x"
    /\ finalText = "SELECT ? AS x"

\* Directives Initialize has been called on and has accepted.
Initialized == IF dpc \in { "initialize", "failed" } THEN dpos ELSE Len(chain)

HasNonEmptyWith(tok) ==
    \E k \in 1..Len(tok.attrs) : tok.attrs[k].key = "with" /\ tok.attrs[k].value # ""

\* C10: Initialize of a replace directive whose element has no 'with' attribute,
\* or an empty one, fails with a descriptive error and leaves origin and with
\* unset; with a non-empty 'with' it succeeds and stores the element text as
\* origin and the attribute value as with.
C10_ReplaceInitialize ==
    /\ \A k \in 1..Initialized :
          tokens[k].kind = "Element" =>
              /\ HasNonEmptyWith(tokens[k])
              /\ chain[k].origin = tokens[k].data
              /\ chain[k].with # ""
              /\ \E j \in 1..Len(tokens[k].attrs) :
                    tokens[k].attrs[j] = [ key |-> "with", value |-> chain[k].with ]
    /\ (dpc = "initialize" /\ dpos < Len(chain) /\ initErr = "") =>
          (chain[dpos + 1].origin = "" /\ chain[dpos + 1].with = "")
    /\ dpc = "failed" =>
          /\ tokens[dpos + 1].kind = "Element"
          /\ ~HasNonEmptyWith(tokens[dpos + 1])
          /\ initErr = "Missing 'with' attribute in <replace> directive"
          /\ chain[dpos + 1].origin = ""
          /\ chain[dpos + 1].with = ""

C10_Witness ==
    /\ dpc = "failed"
    /\ dpos = 1
    /\ tokens[2] = Element("replace", "1+1", << [ key |-> "with", value |-> "" ] >>)
    /\ chain[2].origin = ""
    /\ chain[2].with = ""
    /\ initErr # ""


SpecRun == Init /\ [][RunNext]_vars

----------------------------------------------------------------------------
(* Claims about Renderer.Run, checked under SpecRun *)

\* Statements NewStmtInfo was called on and failed to compile.
FailedStmts == attempted \ compiled

\* C9 as stated: a statement that fails to compile aborts only itself; the other
\* statements of its document are still compiled.
C9_OtherStatementsStillCompiled ==
    rpc = "returned" =>
        \A s \in FailedStmts :
            \A e \in 1..Len(docs[s[1]].stmts) :
                docs[s[1]].stmts[e] => <<s[1], e>> \in compiled

\* C9 as amended: a statement that fails to compile makes Run return that error
\* at once: no statement after it, in its document or a later one, is compiled
\* or even attempted, and no statement file is rendered for its document or a
\* later one.
C9_FailedStatementAbortsRun ==
    \A s \in FailedStmts :
        /\ rpc = "returned"
        /\ runResult = "NewStmtInfo failed"
        /\ \A a \in attempted : a[1] < s[1] \/ (a[1] = s[1] /\ a[2] <= s[2])
        /\ \A f \in rendered : f < s[1]

C9_Witness ==
    /\ rpc = "returned"
    /\ Len(docs) = 2
    /\ docs[1].stmts = << TRUE >>
    /\ docs[2].stmts = << FALSE, TRUE >>
    /\ compiled = { <<1, 1>> }
    /\ attempted = { <<1, 1>>, <<2, 1>> }
    /\ rendered = { 1 }
    /\ runResult = "NewStmtInfo failed"


SpecRegistry == Init /\ [][RegistryNext]_vars

----------------------------------------------------------------------------
(* Claims about the directive registry, checked under SpecRegistry *)

Named(call, t) == \E k \in 1..Len(call.tags) : call.tags[k] = t

\* C11: after any sequence of RegistDirective calls the registry holds, for each
\* tag, the factory of the most recent call that named the tag (none when no
\* call named it); the latest call bound every tag it named to its factory, and
\* every tag it did not name has the binding it had before the call.
C11_LastRegistrationWins ==
    \A t \in TagNames :
        /\ directiveFactories[t] = regLatest[t]
        /\ Named(regCall, t) => directiveFactories[t] = regCall.factory
        /\ ~Named(regCall, t) => directiveFactories[t] = regPrev[t]

C11_Witness ==
    /\ regCalls = 2
    /\ regPrev = [ EmptyRegistry EXCEPT !["replace"] = "replaceDirective",
                                        !["wildcard"] = "replaceDirective" ]
    /\ regCall = [ factory |-> "bindDirective", tags |-> << "replace", "bind" >> ]
    /\ directiveFactories["replace"] = "bindDirective"
    /\ directiveFactories["bind"] = "bindDirective"
    /\ directiveFactories["wildcard"] = "replaceDirective"

=============================================================================
